---- MODULE Spec2Model ----
(***************************************************************************)
(* CSS token normalization and validation: the repair pass                 *)
(* post_process_css of tmp/test_postprocessor.py and the quality report of *)
(* CSSQualityValidator in tmp/test_css_quality.py.                         *)
(*                                                                         *)
(* A StyleText is a TLA+ string; the regular expressions of the source     *)
(* are scanned character by character, with the leftmost-first and greedy  *)
(* choices Python's re module makes.                                       *)
(***************************************************************************)
EXTENDS Integers, Sequences, FiniteSets, TLC

(***************************************************************************)
(* Characters and literals                                                 *)
(***************************************************************************)

\* s[i] as a one-character string ("" outside the text).
Ch(s, i) == IF i >= 1 /\ i <= Len(s) THEN SubSeq(s, i, i) ELSE ""

\* The text s has the literal lit at position i.
At(s, i, lit) ==
  /\ i >= 1
  /\ i + Len(lit) - 1 <= Len(s)
  /\ SubSeq(s, i, i + Len(lit) - 1) = lit

\* The class \s of the re module (the ASCII members a TLA+ string can hold).
Whitespace == {" ", "\t", "\n", "\r", "\f"}

Digits == {"0", "1", "2", "3", "4", "5", "6", "7", "8", "9"}

LowerLetters ==
  {"a", "b", "c", "d", "e", "f", "g", "h", "i", "j", "k", "l", "m",
   "n", "o", "p", "q", "r", "s", "t", "u", "v", "w", "x", "y", "z"}

UpperLetters ==
  {"A", "B", "C", "D", "E", "F", "G", "H", "I", "J", "K", "L", "M",
   "N", "O", "P", "Q", "R", "S", "T", "U", "V", "W", "X", "Y", "Z"}

\* The class [a-zA-Z0-9-] of the var() pattern's name group.
NameChars == LowerLetters \cup UpperLetters \cup Digits \cup {"-"}

\* The least j in lo..hi with P(j); a value above hi when there is none. This
\* is how the scanner moves left to right to the next place a pattern matches.
FirstPos(lo, hi, P(_)) ==
  IF lo > hi THEN lo
  ELSE CHOOSE j \in lo..(hi + 1) :
         /\ j = hi + 1 \/ P(j)
         /\ \A k \in lo..(j - 1) : ~P(k)

\* The first position >= i that holds no character of the class cls
\* (Len(s) + 1 when the class runs to the end): a greedy cls*.
SkipClass(s, i, cls) == FirstPos(i, Len(s), LAMBDA j : Ch(s, j) \notin cls)

ZeroIfPast(j, n) == IF j > n THEN 0 ELSE j

\* The first position >= i that holds the character c, 0 when there is none:
\* where a greedy [^c]* stops.
FindChar(s, i, c) ==
  ZeroIfPast(FirstPos(i, Len(s), LAMBDA k : Ch(s, k) = c), Len(s))

\* ''.join(parts)
RECURSIVE Join(_)
Join(parts) == IF parts = <<>> THEN "" ELSE Head(parts) \o Join(Tail(parts))

(***************************************************************************)
(* The token vocabulary of tmp/test_postprocessor.py                       *)
(***************************************************************************)

NORMALIZATION_MAP ==
  [k \in {"--ctc-neutral-0", "--ctc-neutral-1"} |-> "--ctc-neutral-lightest"] @@
  [k \in {"--ctc-neutral-2", "--ctc-neutral-3"} |-> "--ctc-neutral-light"] @@
  [k \in {"--ctc-neutral-4", "--ctc-neutral-5"} |-> "--ctc-neutral-medium"] @@
  [k \in {"--ctc-neutral-6"} |-> "--ctc-neutral-dark"] @@
  [k \in {"--ctc-neutral-7"} |-> "--ctc-neutral-darkest"] @@
  [k \in {"--ctc-neutral-50", "--ctc-neutral-100"} |-> "--ctc-neutral-lightest"] @@
  [k \in {"--ctc-neutral-200", "--ctc-neutral-300"} |-> "--ctc-neutral-light"] @@
  [k \in {"--ctc-neutral-400", "--ctc-neutral-500"} |-> "--ctc-neutral-medium"] @@
  [k \in {"--ctc-neutral-600", "--ctc-neutral-700"} |-> "--ctc-neutral-dark"] @@
  [k \in {"--ctc-neutral-800", "--ctc-neutral-900", "--ctc-neutral-950"}
     |-> "--ctc-neutral-darkest"] @@
  [k \in {"--ctc-spacing-0"} |-> "0"] @@
  [k \in {"--ctc-spacing-1"} |-> "--ctc-spacing-xs"] @@
  [k \in {"--ctc-spacing-2"} |-> "--ctc-spacing-sm"] @@
  [k \in {"--ctc-spacing-3"} |-> "--ctc-spacing-md"] @@
  [k \in {"--ctc-spacing-4"} |-> "--ctc-spacing-lg"] @@
  [k \in {"--ctc-spacing-5"} |-> "--ctc-spacing-xl"] @@
  [k \in {"--ctc-spacing-6"} |-> "--ctc-spacing-2xl"] @@
  [k \in {"--ctc-spacing-8", "--ctc-spacing-9", "--ctc-spacing-10",
          "--ctc-spacing-11", "--ctc-spacing-12", "--ctc-spacing-14",
          "--ctc-spacing-16", "--ctc-spacing-20", "--ctc-spacing-24"}
     |-> "--ctc-spacing-3xl"] @@
  [k \in {"--ctc-space-4"} |-> "--ctc-spacing-lg"] @@
  [k \in {"--ctc-space-8"} |-> "--ctc-spacing-3xl"] @@
  [k \in {"--ctc-radius-0"} |-> "0"] @@
  [k \in {"--ctc-radius-1"} |-> "--ctc-radius-sm"] @@
  [k \in {"--ctc-radius-2"} |-> "--ctc-radius-md"]

(***************************************************************************)
(* Root blocks: the pattern  :root\s*\{[^}]*\}  and its uses               *)
(***************************************************************************)

\* The marker that stands for a stripped block.
StrippedMarker == "/* [PostProcessor] Stripped duplicate :root */"

\* The \{ of the pattern, tried at position j: j, or 0 when it is not there.
BraceAt(s, j) == IF Ch(s, j) = "{" THEN j ELSE 0

\* re.match(r':root\s*\{', s) from position i: the position of the '{',
\* 0 when the pattern does not match there.
RootOpenAt(s, i) ==
  IF At(s, i, ":root") THEN BraceAt(s, SkipClass(s, i + 5, Whitespace)) ELSE 0

\* The [^}]*\} of the pattern after the '{' at position open: the position
\* of the first '}' (0: no match).
CloseAfter(s, open) == IF open = 0 THEN 0 ELSE FindChar(s, open + 1, "}")

\* The pattern :root\s*\{[^}]*\} from position i: the position of the
\* closing '}', 0 when the pattern does not match there.
RootBlockAt(s, i) == CloseAfter(s, RootOpenAt(s, i))

\* re.finditer(root_pattern, s): the spans <<start, end>> of the leftmost,
\* non-overlapping matches, scanned from position i. The scan moves to the
\* first position a where the pattern matches and goes on after its end e.
RECURSIVE RootSpans(_, _)
RootSpanThenRest(s, a, e) == <<(<<a, e>>)>> \o RootSpans(s, e + 1)
RootSpansAt(s, a) ==
  IF a > Len(s) THEN <<>> ELSE RootSpanThenRest(s, a, RootBlockAt(s, a))
RootSpans(s, i) ==
  RootSpansAt(s, FirstPos(i, Len(s), LAMBDA j : RootBlockAt(s, j) # 0))

\* The texts of the spans sp of s.
SpanTexts(s, sp) == [k \in 1..Len(sp) |-> SubSeq(s, sp[k][1], sp[k][2])]

\* re.findall(r':root\s*\{[^}]*\}', s): the matched texts.
RootBlocks(s) == SpanTexts(s, RootSpans(s, 1))

\* count_root_declarations: len(re.findall(r':root\s*\{', css)).
RECURSIVE CountOpensFrom(_, _)
CountOpensAt(s, a) ==
  IF a > Len(s) THEN 0 ELSE 1 + CountOpensFrom(s, RootOpenAt(s, a) + 1)
CountOpensFrom(s, i) ==
  CountOpensAt(s, FirstPos(i, Len(s), LAMBDA j : RootOpenAt(s, j) # 0))

count_root_declarations(css) == CountOpensFrom(css, 1)

\* re.split(r'(:root\s*\{[^}]*\})', s): the text before the first match,
\* then each match followed by the text up to the next match (or the end).
RECURSIVE SplitFrom(_, _, _)
SplitFrom(s, sp, from) ==
  IF sp = <<>> THEN <<SubSeq(s, from, Len(s))>>
  ELSE <<SubSeq(s, from, sp[1][1] - 1), SubSeq(s, sp[1][1], sp[1][2])>>
         \o SplitFrom(s, Tail(sp), sp[1][2] + 1)

SplitRoots(s) == SplitFrom(s, RootSpans(s, 1), 1)

\* The loop over the parts: every part that re.match(r':root\s*\{', part)
\* accepts is a root block; the first is kept, the others become the marker.
\* A variant of RootPartOut that lets the first block go and keeps the later
\* ones; C2 must tell it from the code.
RootPartOutKeepingLater(part, kept_first) ==
  IF kept_first THEN part ELSE StrippedMarker

\* What a root block part contributes: itself when no block was kept yet,
\* the marker afterwards.
RootPartOut(part, kept_first) ==
  IF kept_first THEN StrippedMarker ELSE part

RECURSIVE RebuildParts(_, _)
RebuildParts(parts, kept_first) ==
  IF parts = <<>> THEN <<>>
  ELSE IF RootOpenAt(Head(parts), 1) = 0
  THEN <<Head(parts)>> \o RebuildParts(Tail(parts), kept_first)
  ELSE <<RootPartOut(Head(parts), kept_first)>>
         \o RebuildParts(Tail(parts), TRUE)

\* A variant of StripWhenMany that strips nothing; C13 must tell it from the
\* code.
StripNothing(css, root_count) == css

\* A variant of StripWhenMany that rebuilds the text as soon as there is
\* one block; C3 must tell it from the code.
StripWhenAny(css, root_count) ==
  IF root_count >= 1
  THEN Join(RebuildParts(SplitRoots(css), FALSE))
  ELSE css

\* root_count > 1: rebuild the text from its parts; otherwise leave it.
StripWhenMany(css, root_count) ==
  IF root_count > 1
  THEN Join(RebuildParts(SplitRoots(css), FALSE))
  ELSE css

\* Step 1 of post_process_css: strip the duplicate :root declarations.
StripDuplicateRoots(css) == StripWhenMany(css, Len(RootSpans(css, 1)))

(***************************************************************************)
(* Token references: the pattern                                           *)
(*   var\(\s*(--ctc-[a-zA-Z0-9-]+)\s*(?:,\s*([^)]+))?\s*\)                 *)
(***************************************************************************)

NoMatch == [end |-> 0, name |-> "", has_fallback |-> FALSE, fallback |-> ""]

\* A match that ends at r with group 2 = s[from..r-1].
WithFallback(s, from, r, name) ==
  [end |-> r, name |-> name, has_fallback |-> TRUE,
   fallback |-> SubSeq(s, from, r - 1)]

\* ([^)]+)\s*\) after the comma at p and the whitespace up to q: [^)]+ is
\* greedy and runs to the first ')' at r. When the \s* after the comma has
\* eaten everything up to that ')', it gives its last character back.
FallbackTo(s, p, q, r, name) ==
  IF r = 0 THEN NoMatch
  ELSE IF r > q THEN WithFallback(s, q, r, name)
  ELSE IF q > p + 1 THEN WithFallback(s, q - 1, r, name)
  ELSE NoMatch

\* The optional group (?:,\s*([^)]+))? and the closing \s*\) , tried with the
\* name ending before position p (p is past the \s* that follows the name).
VarTailAt(s, p, name) ==
  IF Ch(s, p) = ")"
  THEN [end |-> p, name |-> name, has_fallback |-> FALSE, fallback |-> ""]
  ELSE IF Ch(s, p) # "," THEN NoMatch
  ELSE FallbackTo(s, p, SkipClass(s, p + 1, Whitespace),
                  FindChar(s, SkipClass(s, p + 1, Whitespace), ")"), name)

\* [a-zA-Z0-9-]+ from j + 6 ran up to k: group 1 is s[j..k-1], not empty.
VarNameEnd(s, j, k) ==
  IF k = j + 6 THEN NoMatch
  ELSE VarTailAt(s, SkipClass(s, k, Whitespace), SubSeq(s, j, k - 1))

\* (--ctc-[a-zA-Z0-9-]+) and what follows it, from position j.
VarNameAt(s, j) ==
  IF At(s, j, "--ctc-") THEN VarNameEnd(s, j, SkipClass(s, j + 6, NameChars))
  ELSE NoMatch

\* The pattern from position i: where the match ends (0: no match there), the
\* name (group 1) and the fallback (group 2, when it took part).
VarMatchAt(s, i) ==
  IF At(s, i, "var(") THEN VarNameAt(s, SkipClass(s, i + 4, Whitespace))
  ELSE NoMatch

\* re.finditer of the pattern: the leftmost, non-overlapping matches from
\* position i, each with its start.
RECURSIVE VarMatches(_, _)
VarMatchThenRest(s, a, m) ==
  <<[start |-> a, end |-> m.end, name |-> m.name,
     has_fallback |-> m.has_fallback, fallback |-> m.fallback]>>
    \o VarMatches(s, m.end + 1)
VarMatchesAt(s, a) ==
  IF a > Len(s) THEN <<>> ELSE VarMatchThenRest(s, a, VarMatchAt(s, a))
VarMatches(s, i) ==
  VarMatchesAt(s, FirstPos(i, Len(s), LAMBDA j : VarMatchAt(s, j).end # 0))

\* normalized.startswith('--')
StartsWithDashes(t) == At(t, 1, "--")

\* A variant of Rewritten that forgets the fallback; C6 must tell it from
\* the code.
RewrittenWithoutFallback(normalized, m) ==
  IF ~StartsWithDashes(normalized) THEN normalized
  ELSE "var(" \o normalized \o ")"

\* The branches of normalize_var once the name is found in the table.
Rewritten(normalized, m) ==
  IF ~StartsWithDashes(normalized) THEN normalized
  ELSE IF m.has_fallback /\ m.fallback # ""
  THEN "var(" \o normalized \o ", " \o m.fallback \o ")"
  ELSE "var(" \o normalized \o ")"

\* normalize_var: the replacement for one match m of the text s.
normalize_var(s, m) ==
  IF m.name \in DOMAIN NORMALIZATION_MAP
  THEN Rewritten(NORMALIZATION_MAP[m.name], m)
  ELSE SubSeq(s, m.start, m.end)

\* re.sub(pattern, normalize_var, s): every match replaced, the text between
\* the matches kept; `from` is where the text not yet emitted starts.
RECURSIVE SubVars(_, _, _)
SubVars(s, ms, from) ==
  IF ms = <<>> THEN SubSeq(s, from, Len(s))
  ELSE SubSeq(s, from, ms[1].start - 1) \o normalize_var(s, ms[1])
         \o SubVars(s, Tail(ms), ms[1].end + 1)

\* Step 2 of post_process_css: normalize the variable names.
NormalizeVars(s) == SubVars(s, VarMatches(s, 1), 1)

post_process_css(css) == NormalizeVars(StripDuplicateRoots(css))

\* A variant of POSTPROCESSOR_INVALID_PATTERNS without the --ctc-space-
\* pattern; C30 must tell it from the code.
PATTERNS_WITHOUT_SPACE ==
  <<[lit |-> "--ctc-neutral-", then |-> "digits"],
    [lit |-> "--ctc-spacing-", then |-> "digits_end"],
    [lit |-> "--ctc-radius-", then |-> "digits_end"]>>

\* The INVALID_PATTERNS of tmp/test_postprocessor.py, each a literal and what
\* must follow it: digits, or digits up to the end of the name.
POSTPROCESSOR_INVALID_PATTERNS ==
  <<[lit |-> "--ctc-neutral-", then |-> "digits"],
    [lit |-> "--ctc-spacing-", then |-> "digits_end"],
    [lit |-> "--ctc-radius-", then |-> "digits_end"],
    [lit |-> "--ctc-space-", then |-> "digits"]>>

(***************************************************************************)
(* The vocabulary of tmp/test_css_quality.py                               *)
(***************************************************************************)

VALID_VARIABLES ==
  {"--ctc-primary", "--ctc-primary-light", "--ctc-primary-dark",
   "--ctc-secondary", "--ctc-accent",
   "--ctc-neutral-darkest", "--ctc-neutral-dark", "--ctc-neutral-medium",
   "--ctc-neutral-light", "--ctc-neutral-lightest",
   "--ctc-success", "--ctc-warning", "--ctc-error", "--ctc-info",
   "--ctc-font-heading", "--ctc-font-body",
   "--ctc-font-size-base", "--ctc-font-scale-ratio",
   "--ctc-heading-weight", "--ctc-body-weight", "--ctc-body-line-height",
   "--ctc-font-size-xs", "--ctc-font-size-sm", "--ctc-font-size-md",
   "--ctc-font-size-lg", "--ctc-font-size-xl", "--ctc-font-size-2xl",
   "--ctc-font-size-3xl",
   "--ctc-spacing-unit",
   "--ctc-spacing-xs", "--ctc-spacing-sm", "--ctc-spacing-md",
   "--ctc-spacing-lg", "--ctc-spacing-xl", "--ctc-spacing-2xl",
   "--ctc-spacing-3xl",
   "--ctc-radius-sm", "--ctc-radius-md", "--ctc-radius-lg", "--ctc-radius-full",
   "--ctc-shadow-card", "--ctc-shadow-button", "--ctc-shadow-elevated",
   "--ctc-transition-speed", "--ctc-easing"}

\* The patterns, each a literal prefix and what must follow it:
\*   "digits"      \d+        "digits_end"  \d+$
\*   "not_dash"    (?!-)      "none"        nothing
INVALID_PATTERNS ==
  << [lit |-> "--ctc-neutral-", then |-> "digits"],
     [lit |-> "--ctc-spacing-", then |-> "digits_end"],
     [lit |-> "--ctc-radius-", then |-> "digits_end"],
     [lit |-> "--ctc-space-", then |-> "digits"],
     [lit |-> "--ctc-text", then |-> "not_dash"],
     [lit |-> "--ctc-bg", then |-> "not_dash"],
     [lit |-> "--ctc-font-display", then |-> "none"],
     [lit |-> "--ctc-rounded", then |-> "none"] >>

\* What must follow the literal of pattern p, from position n of the name;
\* d is where the digits that start at n end.
PatternRest(p, var_name, n, d) ==
  CASE p.then = "digits" -> d > n
    [] p.then = "digits_end" -> d > n /\ d = Len(var_name) + 1
    [] p.then = "not_dash" -> Ch(var_name, n) # "-"
    [] OTHER -> TRUE

\* re.match(pattern, var_name): the pattern matches a prefix of the name.
PatternMatches(p, var_name) ==
  /\ At(var_name, 1, p.lit)
  /\ PatternRest(p, var_name, Len(p.lit) + 1,
                 SkipClass(var_name, Len(p.lit) + 1, Digits))

\* The inner loop of _check_invalid_variables: some pattern matches.
MatchesInvalidPattern(var_name) ==
  \E k \in 1..Len(INVALID_PATTERNS) : PatternMatches(INVALID_PATTERNS[k], var_name)

(***************************************************************************)
(* Strings as Python handles them                                          *)
(***************************************************************************)

\* `lit in s`
Contains(s, lit) == \E i \in 1..Len(s) : At(s, i, lit)

\* Code points of the characters a variable name can hold.
Ord ==
  [c \in {"-"} |-> 45] @@
  [c \in Digits |->
     CASE c = "0" -> 48 [] c = "1" -> 49 [] c = "2" -> 50 [] c = "3" -> 51
       [] c = "4" -> 52 [] c = "5" -> 53 [] c = "6" -> 54 [] c = "7" -> 55
       [] c = "8" -> 56 [] c = "9" -> 57] @@
  [c \in UpperLetters |->
     CASE c = "A" -> 65 [] c = "B" -> 66 [] c = "C" -> 67 [] c = "D" -> 68
       [] c = "E" -> 69 [] c = "F" -> 70 [] c = "G" -> 71 [] c = "H" -> 72
       [] c = "I" -> 73 [] c = "J" -> 74 [] c = "K" -> 75 [] c = "L" -> 76
       [] c = "M" -> 77 [] c = "N" -> 78 [] c = "O" -> 79 [] c = "P" -> 80
       [] c = "Q" -> 81 [] c = "R" -> 82 [] c = "S" -> 83 [] c = "T" -> 84
       [] c = "U" -> 85 [] c = "V" -> 86 [] c = "W" -> 87 [] c = "X" -> 88
       [] c = "Y" -> 89 [] c = "Z" -> 90] @@
  [c \in LowerLetters |->
     CASE c = "a" -> 97 [] c = "b" -> 98 [] c = "c" -> 99 [] c = "d" -> 100
       [] c = "e" -> 101 [] c = "f" -> 102 [] c = "g" -> 103 [] c = "h" -> 104
       [] c = "i" -> 105 [] c = "j" -> 106 [] c = "k" -> 107 [] c = "l" -> 108
       [] c = "m" -> 109 [] c = "n" -> 110 [] c = "o" -> 111 [] c = "p" -> 112
       [] c = "q" -> 113 [] c = "r" -> 114 [] c = "s" -> 115 [] c = "t" -> 116
       [] c = "u" -> 117 [] c = "v" -> 118 [] c = "w" -> 119 [] c = "x" -> 120
       [] c = "y" -> 121 [] c = "z" -> 122]

\* a < b, given the first position d where they differ (d > n: one is a
\* prefix of the other, n being the shorter length).
LessAt(a, b, n, d) ==
  IF d > n THEN Len(a) < Len(b) ELSE Ord[Ch(a, d)] < Ord[Ch(b, d)]

ShorterLen(a, b) == IF Len(a) < Len(b) THEN Len(a) ELSE Len(b)

\* a < b as Python orders two names: by code point, a proper prefix first.
StrLess(a, b) ==
  LessAt(a, b, ShorterLen(a, b),
         FirstPos(1, ShorterLen(a, b), LAMBDA j : Ch(a, j) # Ch(b, j)))

\* sorted(names) of a set of names.
RECURSIVE Sorted(_)
LeastThenRest(names, least) == <<least>> \o Sorted(names \ {least})
Sorted(names) ==
  IF names = {} THEN <<>>
  ELSE LeastThenRest(names,
         CHOOSE a \in names : \A b \in names \ {a} : StrLess(a, b))

\* sep.join(parts)
RECURSIVE JoinWith(_, _)
JoinWith(sep, parts) ==
  IF parts = <<>> THEN ""
  ELSE IF Len(parts) = 1 THEN parts[1]
  ELSE parts[1] \o sep \o JoinWith(sep, Tail(parts))

\* c.lower() of one character.
LowerChar(c) ==
  IF c \in UpperLetters
  THEN CHOOSE l \in LowerLetters : Ord[l] = Ord[c] + 32
  ELSE c

\* s.lower(), one half after the other.
RECURSIVE Lower(_)
Lower(s) ==
  IF Len(s) = 0 THEN ""
  ELSE IF Len(s) = 1 THEN LowerChar(s)
  ELSE Lower(SubSeq(s, 1, Len(s) \div 2))
         \o Lower(SubSeq(s, Len(s) \div 2 + 1, Len(s)))

\* The last position <= i that holds no whitespace (0 when there is none).
LastNonSpace(s, i) ==
  CHOOSE j \in 0..i :
    /\ j = 0 \/ Ch(s, j) \notin Whitespace
    /\ \A k \in (j + 1)..i : Ch(s, k) \in Whitespace

SubOrEmpty(s, a, b) == IF a > b THEN "" ELSE SubSeq(s, a, b)

\* s.strip()
Strip(s) ==
  SubOrEmpty(s, SkipClass(s, 1, Whitespace), LastNonSpace(s, Len(s)))

Quoted(values) == [k \in 1..Len(values) |-> "'" \o values[k] \o "'"]

\* repr() of a list of strings that hold no quote and no backslash.
PyList(values) == "[" \o JoinWith(", ", Quoted(values)) \o "]"

(***************************************************************************)
(* CSSQualityValidator                                                     *)
(***************************************************************************)

\* ([^;]+) after the ':' that ends before p and the whitespace up to q:
\* [^;]+ runs to the first ';' before r (or to the end of the text); when \s*
\* has eaten everything before that ';', it gives one character back.
PrimaryValue(root, p, q, r) ==
  IF r > q THEN <<SubSeq(root, q, r - 1)>>
  ELSE IF q > p THEN <<SubSeq(root, q - 1, r - 1)>>
  ELSE <<>>

EndIfNone(f, n) == IF f = 0 THEN n + 1 ELSE f

\* The pattern --ctc-primary:\s*([^;]+) from position i: <<group 1>>, or <<>>
\* when it does not match there.
PrimaryAt(root, i) ==
  IF ~At(root, i, "--ctc-primary:") THEN <<>>
  ELSE PrimaryValue(root, i + 14, SkipClass(root, i + 14, Whitespace),
         EndIfNone(FindChar(root, SkipClass(root, i + 14, Whitespace), ";"),
                   Len(root)))

PrimaryAtOrNone(root, a) == IF a > Len(root) THEN <<>> ELSE PrimaryAt(root, a)

\* re.search(r'--ctc-primary:\s*([^;]+)', root): <<group 1>> of the leftmost
\* match, <<>> when there is none.
PrimarySearch(root) ==
  PrimaryAtOrNone(root,
    FirstPos(1, Len(root), LAMBDA j : PrimaryAt(root, j) # <<>>))

\* match.group(1).strip().lower() when there is a match.
StripLower(m) == IF m = <<>> THEN <<>> ELSE <<Lower(Strip(m[1]))>>

\* The loop over root_matches: the --ctc-primary value of each root block
\* that declares one.
RECURSIVE Primaries(_)
Primaries(roots) ==
  IF roots = <<>> THEN <<>>
  ELSE StripLower(PrimarySearch(Head(roots))) \o Primaries(Tail(roots))

Range(f) == {f[k] : k \in DOMAIN f}

\* The second issue of _check_duplicate_roots.
ConflictIssue(primaries) ==
  IF Cardinality(Range(primaries)) > 1
  THEN <<"CRITICAL: Brand color --ctc-primary has conflicting values: "
           \o PyList(primaries)>>
  ELSE <<>>

\* A variant of DuplicateIssues that counts a single block as a duplicate;
\* C17 must tell it from the code.
DuplicateIssuesFromOne(root_matches) ==
  IF Len(root_matches) >= 1
  THEN <<"CRITICAL: Found " \o ToString(Len(root_matches))
           \o " :root declarations (should be 1)">>
         \o ConflictIssue(Primaries(root_matches))
  ELSE <<>>

\* A variant of DuplicateIssues that reports the conflict without the count;
\* C28 must tell it from the code.
DuplicateIssuesConflictOnly(root_matches) ==
  ConflictIssue(Primaries(root_matches))

\* The body of _check_duplicate_roots once the root blocks are found.
DuplicateIssues(root_matches) ==
  IF Len(root_matches) > 1
  THEN <<"CRITICAL: Found " \o ToString(Len(root_matches))
           \o " :root declarations (should be 1)">>
         \o ConflictIssue(Primaries(root_matches))
  ELSE <<>>

\* _check_duplicate_roots: the issues it appends.
check_duplicate_roots(css) == DuplicateIssues(RootBlocks(css))

MatchNames(ms) == [k \in 1..Len(ms) |-> ms[k].name]

\* re.findall of the var() pattern: group 1 of every match, in order.
VarUsages(css) == MatchNames(VarMatches(css, 1))

\* find_invalid_variables of tmp/test_postprocessor.py: the names among the
\* references that one of its own patterns rejects.
find_invalid_variables(css) ==
  {var_name \in Range(VarUsages(css)) :
     \E k \in 1..Len(POSTPROCESSOR_INVALID_PATTERNS) :
       PatternMatches(POSTPROCESSOR_INVALID_PATTERNS[k], var_name)}

\* A variant of AddIfInvalid that rejects every name outside VALID_VARIABLES;
\* C10 must tell it from the code.
AddIfNotValid(invalid_vars, var_name) ==
  IF var_name \notin VALID_VARIABLES
  THEN invalid_vars \cup {var_name} ELSE invalid_vars

\* invalid_vars after the inner loop over the patterns for var_name.
AddIfInvalid(invalid_vars, var_name) ==
  IF MatchesInvalidPattern(var_name)
  THEN invalid_vars \cup {var_name} ELSE invalid_vars

\* The loop of _check_invalid_variables: invalid_vars after the first k names.
RECURSIVE InvalidAfter(_, _)
InvalidAfter(var_usages, k) ==
  IF k = 0 THEN {}
  ELSE AddIfInvalid(InvalidAfter(var_usages, k - 1), var_usages[k])

\* The warning of the loop's k-th round, if it makes one.
UnknownWarning(var_name, invalid_vars) ==
  IF var_name \notin VALID_VARIABLES /\ var_name \notin invalid_vars
  THEN <<"Unknown variable: " \o var_name>> ELSE <<>>

RECURSIVE UnknownWarnings(_, _)
UnknownWarnings(var_usages, k) ==
  IF k = 0 THEN <<>>
  ELSE UnknownWarnings(var_usages, k - 1)
         \o UnknownWarning(var_usages[k], InvalidAfter(var_usages, k))

InvalidIssue(invalid_vars) ==
  IF invalid_vars # {}
  THEN <<"CRITICAL: Found " \o ToString(Cardinality(invalid_vars))
           \o " invalid CSS variables: " \o JoinWith(", ", Sorted(invalid_vars))>>
  ELSE <<>>

InvalidFindings(var_usages) ==
  [issues |-> InvalidIssue(InvalidAfter(var_usages, Len(var_usages))),
   warnings |-> UnknownWarnings(var_usages, Len(var_usages))]

\* _check_invalid_variables: what it appends to issues and to warnings.
check_invalid_variables(css) == InvalidFindings(VarUsages(css))

\* Group 1 of the first span of sp: the text between its '{' and its '}'.
FirstContent(css, sp) ==
  IF sp = <<>> THEN <<>>
  ELSE <<SubSeq(css, RootOpenAt(css, sp[1][1]) + 1, sp[1][2] - 1)>>

\* re.search(r':root\s*\{([^}]*)\}', css): <<group 1>> of the first root
\* block, <<>> when there is none.
FirstRootContent(css) == FirstContent(css, RootSpans(css, 1))

required_colors == <<"--ctc-primary", "--ctc-secondary", "--ctc-accent">>

MissingColors(root_content) ==
  SelectSeq(required_colors, LAMBDA color : ~Contains(root_content, color))

ColorWarnings(missing) ==
  [k \in 1..Len(missing) |-> "Missing recommended color: " \o missing[k]]

\* A variant of BrandFindings that says nothing of a text without a root
\* block; C23 must tell it from the code.
BrandFindingsQuiet(root_match) ==
  IF root_match = <<>>
  THEN [issues |-> <<>>, warnings |-> <<>>]
  ELSE [issues |-> <<>>,
        warnings |-> ColorWarnings(MissingColors(root_match[1]))]

BrandFindings(root_match) ==
  IF root_match = <<>>
  THEN [issues |-> <<"CRITICAL: No :root declaration found">>,
        warnings |-> <<>>]
  ELSE [issues |-> <<>>,
        warnings |-> ColorWarnings(MissingColors(root_match[1]))]

\* _check_brand_colors: what it appends to issues and to warnings.
check_brand_colors(css) == BrandFindings(FirstRootContent(css))

TypographyWarnings(css, root_match) ==
  IF root_match = <<>> THEN <<>>
  ELSE (IF Contains(root_match[1], "Arial, sans-serif")
           \/ Contains(css, "font-family: Arial")
        THEN <<"Typography uses generic Arial - may not match brand">>
        ELSE <<>>)
       \o (IF ~Contains(root_match[1], "--ctc-font-heading")
           THEN <<"Missing --ctc-font-heading definition">> ELSE <<>>)
       \o (IF ~Contains(root_match[1], "--ctc-font-body")
           THEN <<"Missing --ctc-font-body definition">> ELSE <<>>)

\* _check_typography: the warnings it appends.
check_typography(css) == TypographyWarnings(css, FirstRootContent(css))

HexDigits == Digits \cup {"a", "b", "c", "d", "e", "f", "A", "B", "C", "D", "E", "F"}

\* (#[0-9a-fA-F]{3,6}) with the '#' expected at h and the hex digits after
\* it ending before e: the position of the last one taken, 0 for no match.
HexEnd(css, h, e) ==
  IF Ch(css, h) # "#" \/ e - (h + 1) < 3 THEN 0
  ELSE IF e - (h + 1) > 6 THEN h + 6 ELSE e - 1

HexAfter(css, h) == HexEnd(css, h, SkipClass(css, h + 1, HexDigits))

\* :\s*(#...) after a property name of n characters at position i.
ColonThenHex(css, i, n) ==
  IF n = 0 \/ Ch(css, i + n) # ":" THEN 0
  ELSE HexAfter(css, SkipClass(css, i + n + 1, Whitespace))

\* The pattern (?:color|background|border-color):\s*(#[0-9a-fA-F]{3,6}) from
\* position i: the position of the last character matched, 0 for no match.
HardcodedColorAt(css, i) ==
  ColonThenHex(css, i,
    IF At(css, i, "color") THEN 5
    ELSE IF At(css, i, "background") THEN 10
    ELSE IF At(css, i, "border-color") THEN 12 ELSE 0)

\* len(re.findall(...)) of that pattern, scanned from position i.
RECURSIVE CountHardcoded(_, _)
CountHardcodedAt(css, a) ==
  IF a > Len(css) THEN 0
  ELSE 1 + CountHardcoded(css, HardcodedColorAt(css, a) + 1)
CountHardcoded(css, i) ==
  CountHardcodedAt(css,
    FirstPos(i, Len(css), LAMBDA j : HardcodedColorAt(css, j) # 0))

HardcodedColorLimit == 10

\* A variant of HardcodedWarning that warns from the limit on; C25 must tell
\* it from the code.
HardcodedWarningAtLimit(n) ==
  IF n >= HardcodedColorLimit
  THEN <<"Found " \o ToString(n) \o " hardcoded colors - should use CSS variables">>
  ELSE <<>>

HardcodedWarning(n) ==
  IF n > HardcodedColorLimit
  THEN <<"Found " \o ToString(n) \o " hardcoded colors - should use CSS variables">>
  ELSE <<>>

\* _check_generic_styles: the warnings it appends.
check_generic_styles(css) == HardcodedWarning(CountHardcoded(css, 1))

\* A variant of FloorAtZero that lets the score fall below zero; C14 must
\* tell it from the code.
NotFloored(score) == score

\* max(0, score)
FloorAtZero(score) == IF score > 0 THEN score ELSE 0

\* _calculate_score
calculate_score(issue_list, warning_list) ==
  FloorAtZero(100 - Len(issue_list) * 25 - Len(warning_list) * 5)

(***************************************************************************)
(* extract_css_from_html: the pattern  <style[^>]*>(.*?)</style>           *)
(***************************************************************************)

\* The first position >= i where the literal lit stands, 0 when there is none.
FindLiteral(s, i, lit) ==
  ZeroIfPast(FirstPos(i, Len(s), LAMBDA k : At(s, k, lit)), Len(s))

\* <style[^>]*> from position p: the position of the '>' that ends the
\* tag, 0 when the pattern does not match there.
StyleOpenAt(html, p) ==
  IF At(html, p, "<style") THEN FindChar(html, p + 6, ">") ELSE 0

\* A variant of StyleCloseAfter for a greedy (.*): the last </style> of the
\* document; C20 must tell it from the code.
StyleCloseLast(html, g) ==
  IF g = 0 \/ FindLiteral(html, g + 1, "</style>") = 0 THEN 0
  ELSE CHOOSE c \in (g + 1)..Len(html) :
         /\ At(html, c, "</style>")
         /\ \A d \in (c + 1)..Len(html) : ~At(html, d, "</style>")

\* (.*?)</style> after the tag that ends at g, with re.DOTALL: the group is
\* lazy and stops before the first </style>; its position, 0 for no match.
StyleCloseAfter(html, g) ==
  IF g = 0 THEN 0 ELSE FindLiteral(html, g + 1, "</style>")

\* The whole pattern from position p: where its </style> starts (0: no match).
StyleBlockAt(html, p) == StyleCloseAfter(html, StyleOpenAt(html, p))

\* re.findall(style_pattern, html_content, re.DOTALL): group 1 of the
\* leftmost, non-overlapping matches, scanned from position i.
RECURSIVE StyleContents(_, _)
StyleContentThenRest(html, g, c) ==
  <<SubOrEmpty(html, g + 1, c - 1)>> \o StyleContents(html, c + 8)
StyleContentsAt(html, a) ==
  IF a > Len(html) THEN <<>>
  ELSE StyleContentThenRest(html, StyleOpenAt(html, a), StyleBlockAt(html, a))
StyleContents(html, i) ==
  StyleContentsAt(html,
    FirstPos(i, Len(html), LAMBDA j : StyleBlockAt(html, j) # 0))

\* extract_css_from_html
extract_css_from_html(html_content) ==
  JoinWith("\n", StyleContents(html_content, 1))

(***************************************************************************)
(* Inputs                                                                  *)
(***************************************************************************)

\* Fragments of stylesheets with root blocks, whole and broken.
RootChunks ==
  {":root{", ":root {", "}", ":root{--ctc-primary:#00637B;}", "a"}

\* Fragments of var() references: a name the table maps to a canonical
\* name, one it maps to a literal, one it does not know, separators, a plain
\* fallback and a fallback that is a reference itself.
VarChunks ==
  {"var(--ctc-neutral-700", "var(--ctc-spacing-0", "var( --ctc-totally-made-up",
   ",", ")", " ", ", #333", ", var(--ctc-neutral-700)"}

\* Whole rules: a root block, and rules that use a canonical name, a name
\* the table knows, one the patterns reject and names nobody knows.
DocChunks ==
  {":root{--ctc-primary:#00637B;}", ":root{--ctc-primary: #0047AB;}",
   "a{color:var(--ctc-primary)}", "b{margin:var(--ctc-spacing-4, 0)}",
   "c{color:var(--ctc-totally-made-up)}", "d{top:var(--ctc-radius-x)}",
   "e{color:var(--ctc-text)}"}

MaxRootChunks == 4
MaxVarChunks == 3
MaxDocChunks == 3

\* How often validate() is called on one validator.
MaxValidateCalls == 2

\* Every concatenation of at most n fragments.
RECURSIVE Concats(_, _)
Concats(chunks, n) ==
  IF n = 0 THEN {""}
  ELSE LET shorter == Concats(chunks, n - 1)
       IN  shorter \cup {t \o c : t \in shorter, c \in chunks}

\* Fragments for the repeated repair: root blocks, a reference cut short
\* before its parenthesis, whole references to a literal, to a canonical
\* name and to a numeric name the table does not hold.
RepairChunks ==
  {":root{--ctc-primary:#00637B;}", ":root{--ctc-primary: #0047AB;}",
   "var(--ctc-spacing-1", "var(--ctc-spacing-0)", ")",
   "var(--ctc-neutral-700, #333)", "var(--ctc-spacing-7)"}

MaxRepairChunks == 3

\* Fragments of HTML documents: style tags with and without attributes,
\* the closing tag, stylesheet text and other markup.
HtmlChunks ==
  {"<style>", "<style media=x>", "</style>", "a{}", "<p>"}

MaxHtmlChunks == 5

RootInputs == Concats(RootChunks, MaxRootChunks)
RepairInputs == Concats(RepairChunks, MaxRepairChunks)
HtmlInputs == Concats(HtmlChunks, MaxHtmlChunks)
VarInputs == Concats(VarChunks, MaxVarChunks)
DocInputs == Concats(DocChunks, MaxDocChunks)

(***************************************************************************)
(* State                                                                   *)
(***************************************************************************)

VARIABLES
  html,       \* main: html_content, the document read ("" when the engine
              \* is handed stylesheet text directly)
  css,        \* the StyleText handed to the engine
  pc,         \* "html" while the document is not yet unpacked, "start", then
              \* "done" once post_process_css has returned
  resolved,   \* post_process_css: `processed` after step 1 (root stripping)
  processed,  \* post_process_css: the returned text
  invalid_vars_after,  \* main: find_invalid_variables(processed_css)
  reprocessed,  \* post_process_css applied to its own result
  validator,  \* the CSSQualityValidator: "none", "constructed", "validated"
  v_css,      \* self.css
  issues,     \* self.issues
  warnings,   \* self.warnings
  report,     \* what the latest validate() returned
  calls,      \* how often validate() has run on this validator
  first_report  \* what its first validate() returned, as it read on return

vars == <<html, css, pc, resolved, processed, invalid_vars_after, reprocessed,
          validator, v_css,
          issues, warnings, report, calls, first_report>>

NoReport == [passed |-> FALSE, issues |-> <<>>, warnings |-> <<>>, score |-> -1]

\* Nothing processed, no validator built.
Idle ==
  /\ resolved = ""
  /\ processed = ""
  /\ invalid_vars_after = {}
  /\ reprocessed = ""
  /\ validator = "none"
  /\ v_css = ""
  /\ issues = <<>>
  /\ warnings = <<>>
  /\ report = NoReport
  /\ calls = 0
  /\ first_report = NoReport

Start ==
  /\ html = ""
  /\ pc = "start"
  /\ Idle

Init == css \in RootInputs \cup VarInputs \cup DocInputs /\ Start

InitRoots == css \in RootInputs /\ Start
InitVars == css \in VarInputs /\ Start
InitDocs == css \in DocInputs /\ Start

\* main: css = extract_css_from_html(html_content)
Extract ==
  /\ pc = "html"
  /\ css' = extract_css_from_html(html)
  /\ pc' = "start"
  /\ UNCHANGED <<html, resolved, processed, invalid_vars_after, reprocessed,
                 validator, v_css, issues, warnings, report, calls,
                 first_report>>

\* main: processed_css = post_process_css(css), then the analysis of the
\* result; the script runs it before any validator is built.
PostProcess ==
  /\ pc = "start"
  /\ validator = "none"
  /\ resolved' = StripDuplicateRoots(css)
  /\ processed' = NormalizeVars(resolved')
  /\ invalid_vars_after' = find_invalid_variables(processed')
  /\ pc' = "done"
  /\ UNCHANGED <<html, css, reprocessed, validator, v_css, issues, warnings, report,
                 calls, first_report>>

\* post_process_css(processed_css): the repair applied to its own result.
PostProcessAgain ==
  /\ pc = "done"
  /\ validator = "none"
  /\ reprocessed' = post_process_css(processed)
  /\ pc' = "twice"
  /\ UNCHANGED <<html, css, resolved, processed, invalid_vars_after, validator,
                 v_css, issues, warnings, report, calls, first_report>>

\* validator = CSSQualityValidator(text), on the stylesheet as it stands:
\* the input before the repair, the repaired text after it.
NewValidator ==
  /\ validator = "none"
  /\ v_css' = IF pc = "done" THEN processed ELSE css
  /\ issues' = <<>>
  /\ warnings' = <<>>
  /\ validator' = "constructed"
  /\ UNCHANGED <<html, css, pc, resolved, processed, invalid_vars_after,
                 reprocessed, report, calls, first_report>>

\* A variant of ReportOf in which a warning blocks passed too; C15 must tell
\* it from the code.
ReportBlockedByWarnings(issue_list, warning_list) ==
  [passed |-> Len(issue_list) = 0 /\ Len(warning_list) = 0,
   issues |-> issue_list,
   warnings |-> warning_list,
   score |-> calculate_score(issue_list, warning_list)]

\* The report validate() returns: the lists themselves, and what follows
\* from them.
ReportOf(issue_list, warning_list) ==
  [passed |-> Len(issue_list) = 0,
   issues |-> issue_list,
   warnings |-> warning_list,
   score |-> calculate_score(issue_list, warning_list)]

\* What the five checks of validate() append to self.issues.
FoundIssues(text) ==
  check_duplicate_roots(text) \o check_invalid_variables(text).issues
    \o check_brand_colors(text).issues

\* What the five checks of validate() append to self.warnings.
FoundWarnings(text) ==
  check_invalid_variables(text).warnings \o check_brand_colors(text).warnings
    \o check_typography(text) \o check_generic_styles(text)

\* results = validator.validate(), on a validator that may have validated
\* before: the checks append to the lists the object already holds.
Validate ==
  /\ validator \in {"constructed", "validated"}
  /\ calls < MaxValidateCalls
  /\ issues' = issues \o FoundIssues(v_css)
  /\ warnings' = warnings \o FoundWarnings(v_css)
  /\ report' = ReportOf(issues', warnings')
  /\ first_report' = IF calls = 0 THEN report' ELSE first_report
  /\ calls' = calls + 1
  /\ validator' = "validated"
  /\ UNCHANGED <<html, css, pc, resolved, processed, invalid_vars_after,
                 reprocessed, v_css>>

Next ==
  \/ PostProcess
  \/ NewValidator
  \/ Validate

Spec == Init /\ [][Next]_vars

SpecRoots == InitRoots /\ [][Next]_vars
SpecVars == InitVars /\ [][Next]_vars
SpecDocs == InitDocs /\ [][Next]_vars

\* The repair and the repair of its result, on texts of their own.
InitRepair == css \in RepairInputs /\ Start
NextRepair ==
  \/ PostProcess
  \/ PostProcessAgain
SpecRepair == InitRepair /\ [][NextRepair]_vars

\* main from the document on: the stylesheet is unpacked, then repaired.
InitExtract == html \in HtmlInputs /\ css = "" /\ pc = "html" /\ Idle
NextExtract ==
  \/ Extract
  \/ PostProcess
SpecExtract == InitExtract /\ [][NextExtract]_vars

\* The repair followed by validation, on the same texts.
SpecPipeline == InitRepair /\ [][Next]_vars

(***************************************************************************)
(* What the claims speak of                                                *)
(***************************************************************************)

\* How often the literal lit occurs in s.
CountOccurrences(s, lit) == Cardinality({i \in 1..Len(s) : At(s, i, lit)})

\* Opening minus closing parentheses of s[open..j].
ParenBalance(s, open, j) ==
  Cardinality({i \in open..j : Ch(s, i) = "("})
    - Cardinality({i \in open..j : Ch(s, i) = ")"})

\* The parenthesis that closes the one at position open (0: none does).
MatchingClose(s, open) ==
  ZeroIfPast(FirstPos(open + 1, Len(s),
                      LAMBDA j : ParenBalance(s, open, j) = 0), Len(s))

\* The root blocks of the input, and the references the normalizer's scan
\* finds in the text it is given.
InputRoots == RootSpans(css, 1)
ScannedRefs == VarMatches(resolved, 1)

\* The name of every var() reference that stands anywhere in s, the ones
\* inside another reference's fallback included.
ReferencedNames(s) == {VarMatchAt(s, i).name : i \in 1..Len(s)} \ {""}

\* The table maps the name of m to a canonical name / to a literal.
CanonicalCase(m) ==
  m.name \in DOMAIN NORMALIZATION_MAP /\ At(NORMALIZATION_MAP[m.name], 1, "--")
LiteralCase(m) ==
  m.name \in DOMAIN NORMALIZATION_MAP /\ ~At(NORMALIZATION_MAP[m.name], 1, "--")

\* Neither canonical nor a key of the table.
UnknownName(name) ==
  name \notin VALID_VARIABLES /\ name \notin DOMAIN NORMALIZATION_MAP

\* The normalized text with s[a..b] replaced by middle and the text on
\* either side normalized on its own.
Around(s, a, b, middle) ==
  NormalizeVars(SubSeq(s, 1, a - 1)) \o middle
    \o NormalizeVars(SubSeq(s, b + 1, Len(s)))

(***************************************************************************)
(* Root resolution                                                         *)
(***************************************************************************)

\* C1: after the root-stripping step, a text that had N >= 1 root blocks
\* holds exactly one active root declaration (count_root_declarations is 1)
\* and exactly N - 1 stripped-duplicate markers.
C1_OneActiveRootBlock ==
  pc = "done" /\ Len(InputRoots) >= 1 =>
    /\ count_root_declarations(resolved) = 1
    /\ CountOccurrences(resolved, StrippedMarker) = Len(InputRoots) - 1

\* The only root block of `after` is the first one of `before`, at the same
\* place, with the same text before it.
OnlyFirstBlockLeft(before, after, first) ==
  /\ RootSpans(after, 1) = <<first>>
  /\ SubSeq(after, 1, first[2]) = SubSeq(before, 1, first[2])

\* C2: when the input has more than one root block, the root block left
\* after resolution is the first block of the input, byte for byte and where
\* it stood; nothing of a later block is in it.
C2_FirstBlockKeptVerbatim ==
  pc = "done" /\ Len(InputRoots) > 1 =>
    OnlyFirstBlockLeft(css, resolved, InputRoots[1])

\* Resolution has run on an input whose second block differs from its first,
\* and has put a marker in.
C2_Witness ==
  /\ pc = "done"
  /\ Len(InputRoots) > 1
  /\ RootBlocks(css)[2] # RootBlocks(css)[1]
  /\ CountOccurrences(resolved, StrippedMarker) >= 1

\* C3: with zero or one root block in the input, root resolution returns
\* the input unchanged.
C3_FewBlocksUnchanged ==
  pc = "done" /\ Len(InputRoots) <= 1 => resolved = css

\* Resolution has run on an input with one whole block and the opening of
\* another, and has left it as it was.
C3_Witness ==
  /\ pc = "done"
  /\ Len(InputRoots) = 1
  /\ count_root_declarations(css) > 1
  /\ resolved = css

\* The text from position `from` on with every block of sp replaced by a
\* marker and everything else kept.
RECURSIVE ReplacedInPlace(_, _, _)
ReplacedInPlace(s, sp, from) ==
  IF sp = <<>> THEN SubSeq(s, from, Len(s))
  ELSE SubSeq(s, from, sp[1][1] - 1) \o StrippedMarker
         \o ReplacedInPlace(s, Tail(sp), sp[1][2] + 1)

\* C4: resolution keeps every piece of text outside the root blocks, in
\* order, keeps the first block, and puts exactly one marker where each
\* later block stood.
C4_DuplicatesReplacedInPlace ==
  pc = "done" /\ Len(InputRoots) > 1 =>
    resolved = SubSeq(css, 1, InputRoots[1][2])
                 \o ReplacedInPlace(css, Tail(InputRoots), InputRoots[1][2] + 1)

(***************************************************************************)
(* Normalization of token references                                       *)
(***************************************************************************)

\* C5: after post_process_css no var() reference anywhere in the output, a
\* nested one included, names a key of NORMALIZATION_MAP.
C5_NoMappedNameLeft ==
  pc = "done" =>
    ReferencedNames(processed) \cap DOMAIN NORMALIZATION_MAP = {}

\* What C6 expects in place of the reference m.
ExpectedReference(m) ==
  IF m.has_fallback
  THEN "var(" \o NORMALIZATION_MAP[m.name] \o ", " \o m.fallback \o ")"
  ELSE "var(" \o NORMALIZATION_MAP[m.name] \o ")"

\* C6: a scanned reference whose name maps to a canonical name is replaced
\* by var(canonical-name, fallback) with the fallback the scan took, byte
\* for byte, and by var(canonical-name) when it had no fallback.
C6_FallbackCarriedThrough ==
  pc = "done" =>
    \A k \in 1..Len(ScannedRefs) :
      CanonicalCase(ScannedRefs[k]) =>
        processed = Around(resolved, ScannedRefs[k].start, ScannedRefs[k].end,
                           ExpectedReference(ScannedRefs[k]))

\* The normalizer has rewritten a reference with a fallback and one without.
C6_Witness ==
  /\ pc = "done"
  /\ processed # resolved
  /\ \E k \in 1..Len(ScannedRefs) :
       CanonicalCase(ScannedRefs[k]) /\ ScannedRefs[k].has_fallback
  /\ \E k \in 1..Len(ScannedRefs) :
       CanonicalCase(ScannedRefs[k]) /\ ~ScannedRefs[k].has_fallback

\* C7: a reference whose name maps to a literal is replaced, whole, from
\* its 'var(' to the parenthesis that closes it, by the literal alone.
C7_LiteralReplacesWholeExpression ==
  pc = "done" =>
    \A k \in 1..Len(ScannedRefs) :
      LiteralCase(ScannedRefs[k])
        /\ MatchingClose(resolved, ScannedRefs[k].start + 3) # 0 =>
          processed = Around(resolved, ScannedRefs[k].start,
                             MatchingClose(resolved, ScannedRefs[k].start + 3),
                             NORMALIZATION_MAP[ScannedRefs[k].name])

\* C8: the scan takes a reference to end at the parenthesis that closes its
\* 'var(', whatever parentheses its fallback holds.
C8_ScanEndsAtMatchingParenthesis ==
  pc = "done" =>
    \A k \in 1..Len(ScannedRefs) :
      MatchingClose(resolved, ScannedRefs[k].start + 3) # 0 =>
        ScannedRefs[k].end = MatchingClose(resolved, ScannedRefs[k].start + 3)

\* C9: a scanned reference with an unknown name is left as it stands and
\* its name is in what the caller gets back as the references in doubt.
C9_UnknownReferenceReported ==
  pc = "done" =>
    \A k \in 1..Len(ScannedRefs) :
      UnknownName(ScannedRefs[k].name) =>
        /\ processed = Around(resolved, ScannedRefs[k].start, ScannedRefs[k].end,
                              SubSeq(resolved, ScannedRefs[k].start,
                                     ScannedRefs[k].end))
        /\ ScannedRefs[k].name \in invalid_vars_after

(***************************************************************************)
(* Validation                                                              *)
(***************************************************************************)

\* The issue _check_invalid_variables raises.
IsInvalidVariablesIssue(t) ==
  At(t, 1, "CRITICAL: Found ") /\ Contains(t, " invalid CSS variables: ")

VerdictOnNames(names, rep) ==
  /\ (\E k \in 1..Len(names) : MatchesInvalidPattern(names[k]))
       <=> (\E i \in 1..Len(rep.issues) : IsInvalidVariablesIssue(rep.issues[i]))
  /\ (\E k \in 1..Len(names) : MatchesInvalidPattern(names[k])) => ~rep.passed
  /\ \A k \in 1..Len(names) :
       names[k] \notin VALID_VARIABLES /\ ~MatchesInvalidPattern(names[k]) =>
         \E i \in 1..Len(rep.warnings) :
           rep.warnings[i] = "Unknown variable: " \o names[k]

C11_ValidateIdempotent ==
  calls >= 2 => report = first_report

(***************************************************************************)
(* The repair, repeated and followed by validation                         *)
(***************************************************************************)

\* C12: the repair applied to its own result changes nothing:
\* post_process_css(post_process_css(c)) = post_process_css(c).
C12_RepairIdempotent ==
  pc = "twice" => reprocessed = processed

\* The text has two or more root blocks that declare different
\* --ctc-primary values.
ConflictingRoots(s) ==
  /\ Len(RootSpans(s, 1)) >= 2
  /\ Cardinality(Range(Primaries(RootBlocks(s)))) > 1

\* Every var() reference of the text names a key of the table.
OnlyTabledReferences(s) == ReferencedNames(s) \subseteq DOMAIN NORMALIZATION_MAP

\* The repaired text has been validated, once.
RepairedAndValidated ==
  pc = "done" /\ validator = "validated" /\ calls = 1 /\ v_css = processed

IsRootCountIssue(t) ==
  At(t, 1, "CRITICAL: Found ") /\ Contains(t, " :root declarations (should be 1)")

IsConflictIssue(t) ==
  At(t, 1, "CRITICAL: Brand color --ctc-primary has conflicting values: ")

RepairedReport(before, after, rep) ==
  /\ Len(RootSpans(after, 1)) = 1
  /\ PrimarySearch(RootBlocks(after)[1]) = PrimarySearch(RootBlocks(before)[1])
  /\ \A i \in 1..Len(rep.issues) :
       ~IsRootCountIssue(rep.issues[i]) /\ ~IsConflictIssue(rep.issues[i])
  /\ rep.passed <=>
       ~\E k \in 1..Len(VarUsages(after)) : MatchesInvalidPattern(VarUsages(after)[k])

Unfloored(rep) == 100 - 25 * Len(rep.issues) - 5 * Len(rep.warnings)

\* C14: in every Report, score = max(0, 100 - 25 * issues - 5 * warnings),
\* every issue being critical; so the score lies in 0..100 and is 100
\* exactly when there is no issue and no warning.
C14_ScoreFormula ==
  validator = "validated" =>
    /\ \A i \in 1..Len(report.issues) : At(report.issues[i], 1, "CRITICAL:")
    /\ report.score = IF Unfloored(report) < 0 THEN 0 ELSE Unfloored(report)
    /\ report.score \in 0..100
    /\ report.score = 100 <=> report.issues = <<>> /\ report.warnings = <<>>

\* A Report whose deductions go beyond 100 has been returned, with score 0.
C14_Witness ==
  /\ validator = "validated"
  /\ Unfloored(report) < 0
  /\ report.score = 0

\* C15: in every Report, passed is true exactly when the list of issues
\* (all of them critical) is empty, whatever the number of warnings.
C15_PassedIffNoIssues ==
  validator = "validated" => (report.passed <=> report.issues = <<>>)

\* A Report with warnings and no issue has been returned, and it passed.
C15_Witness ==
  /\ validator = "validated"
  /\ report.issues = <<>>
  /\ Len(report.warnings) >= 4
  /\ report.passed

\* The values of a list, each once, in the order they are first seen.
RECURSIVE FirstSeen(_)
FirstSeen(values) ==
  IF values = <<>> THEN <<>>
  ELSE <<Head(values)>>
         \o FirstSeen(SelectSeq(Tail(values), LAMBDA v : v # Head(values)))

ConflictIssues(rep) == SelectSeq(rep.issues, IsConflictIssue)

\* C16: when two or more root blocks each declare --ctc-primary and the
\* values differ, validation reports one conflicting-brand-color issue, and
\* its list holds each distinct value once, in order of first appearance.
C16_ConflictListsDistinctValues ==
  validator = "validated" /\ calls = 1 /\ ConflictingRoots(v_css)
    /\ Len(Primaries(RootBlocks(v_css))) = Len(RootBlocks(v_css)) =>
      ConflictIssues(report) =
        <<"CRITICAL: Brand color --ctc-primary has conflicting values: "
            \o PyList(FirstSeen(Primaries(RootBlocks(v_css))))>>

\* The root-count issues a Report with n root blocks in the text must hold.
RootCountVerdict(rep, n) ==
  SelectSeq(rep.issues, IsRootCountIssue) =
    IF n > 1
    THEN <<"CRITICAL: Found " \o ToString(n) \o " :root declarations (should be 1)">>
    ELSE <<>>

\* C17: validation reports a root-count issue exactly when the text holds
\* more than one root block, and the issue states how many were found.
C17_RootCountIssue ==
  validator = "validated" /\ calls = 1 =>
    RootCountVerdict(report, Len(RootSpans(v_css, 1)))

\* A text with three root blocks has been validated and the issue reports
\* the three.
C17_Witness ==
  /\ validator = "validated"
  /\ calls = 1
  /\ Len(RootSpans(v_css, 1)) = 3
  /\ \E i \in 1..Len(report.issues) : IsRootCountIssue(report.issues[i])

\* C18: for a text with at least one root block, the repaired text has
\* exactly one root declaration and find_invalid_variables finds nothing in
\* it: no reference to a name that matches an invalid pattern is left.
C18_RepairLeavesNothingInvalid ==
  pc = "done" /\ Len(InputRoots) >= 1 =>
    /\ count_root_declarations(processed) = 1
    /\ invalid_vars_after = {}

\* The names, among those of all var() references of s, that match an
\* invalid pattern.
OffendingNames(s) == {name \in ReferencedNames(s) : MatchesInvalidPattern(name)}

\* The invalid-variables issues a Report must hold for the offending names.
InvalidNamesVerdict(rep, offending) ==
  SelectSeq(rep.issues, IsInvalidVariablesIssue) =
    IF offending # {}
    THEN <<"CRITICAL: Found " \o ToString(Cardinality(offending))
             \o " invalid CSS variables: " \o JoinWith(", ", Sorted(offending))>>
    ELSE <<>>

\* C19: when the text holds a var() reference whose name matches an invalid
\* pattern, validation reports exactly one invalid-variables issue, listing
\* each offending name once, sorted; when none matches, it reports none.
C19_InvalidNamesListedOnce ==
  validator = "validated" /\ calls = 1 =>
    InvalidNamesVerdict(report, OffendingNames(v_css))

(***************************************************************************)
(* Extraction                                                              *)
(***************************************************************************)

\* Where the closing tags </style> of the document stand.
ClosePositions(html_content) ==
  {c \in 1..Len(html_content) : At(html_content, c, "</style>")}

Least(positions) == CHOOSE p \in positions : \A q \in positions : p <= q

\* Where the stretch of the document that the closing tag at c ends begins:
\* after the closing tag before it, or at the start of the document.
PieceStart(closers, c) ==
  IF \E d \in closers : d < c
  THEN 8 + CHOOSE d \in closers : d < c /\ \A e \in closers : e < c => e <= d
  ELSE 1

\* The opening tags <style ...> that stand whole in html_content[a..c-1].
OpenersIn(html_content, a, c) ==
  {p \in a..(c - 1) :
     /\ At(html_content, p, "<style")
     /\ \E g \in (p + 6)..(c - 1) : Ch(html_content, g) = ">"}

\* What lies between the end of the opening tag at p and the closing tag at c.
BlockContent(html_content, p, c) ==
  SubOrEmpty(html_content,
    1 + Least({g \in (p + 6)..(c - 1) : Ch(html_content, g) = ">"}), c - 1)

\* The content of the style block that the closing tag at c ends, if the
\* stretch before it opens one.
ContentBefore(html_content, openers, c) ==
  IF openers = {} THEN <<>>
  ELSE <<BlockContent(html_content, Least(openers), c)>>

\* The contents of the style blocks, closing tag by closing tag, in order.
RECURSIVE ContentsByClosers(_, _, _)
ContentsByClosers(html_content, closers, left) ==
  IF left = {} THEN <<>>
  ELSE ContentBefore(html_content,
         OpenersIn(html_content, PieceStart(closers, Least(left)), Least(left)),
         Least(left))
       \o ContentsByClosers(html_content, closers, left \ {Least(left)})

\* The parts, one per line.
RECURSIVE Lines(_)
Lines(parts) ==
  IF parts = <<>> THEN ""
  ELSE IF Len(parts) = 1 THEN parts[1]
  ELSE parts[1] \o "\n" \o Lines(Tail(parts))

\* C20: extract_css_from_html returns the contents of the <style> blocks
\* of the document, in document order, joined by a newline and nothing else;
\* the empty string when the document holds no style block.
C20_ExtractStyleContents ==
  pc # "html" /\ html # "" =>
    css = Lines(ContentsByClosers(html, ClosePositions(html), ClosePositions(html)))

\* A document with two style blocks and markup outside them has been
\* unpacked into two lines.
C20_Witness ==
  /\ pc # "html"
  /\ Cardinality(ClosePositions(html)) = 2
  /\ Contains(html, "<p>")
  /\ Contains(css, "\n")
  /\ ~Contains(css, "<p>")

(***************************************************************************)
(* The canonical block: required tokens and typography                     *)
(***************************************************************************)

\* Declarations of a root block: required colours, a name that only starts
\* like a required one, a value that refers to one, font stacks that are
\* generic, that name a brand family first, and that are bare.
DeclChunks ==
  {"--ctc-primary:#00637B;", "--ctc-primary-light:#3391A8;",
   "--ctc-secondary:#111111;", "--ctc-link:var(--ctc-accent);",
   "--ctc-font-heading:Georgia, serif;", "--ctc-font-body:Arial, sans-serif;",
   "--ctc-font-body:Inter, Arial, sans-serif;",
   "--ctc-font-heading:sans-serif;"}

MaxDeclChunks == 3

\* What follows the root block: nothing, or a rule that sets a font itself.
ThemeTails == {"", "h1{font-family: Arial}"}

\* Stylesheets with one root block of at most MaxDeclChunks declarations.
ThemeInputs ==
  {":root{" \o d \o "}" \o t :
     d \in Concats(DeclChunks, MaxDeclChunks), t \in ThemeTails}

InitTheme == css \in ThemeInputs /\ Start

\* test_css_validator_directly: a validator is built on the text and asked.
NextReport ==
  \/ NewValidator
  \/ Validate

SpecTheme == InitTheme /\ [][NextReport]_vars

RequiredTokens ==
  {"--ctc-primary", "--ctc-secondary", "--ctc-accent",
   "--ctc-font-heading", "--ctc-font-body"}

\* The warning the report carries for a missing required token.
MissingTokenWarning(token) ==
  IF token \in {"--ctc-font-heading", "--ctc-font-body"}
  THEN "Missing " \o token \o " definition"
  ELSE "Missing recommended color: " \o token

\* root_content declares exactly this token: the name stands at the start
\* of a declaration and a colon follows it.
Declares(root_content, token) ==
  \E i \in 1..Len(root_content) :
    /\ At(root_content, i, token)
    /\ Ch(root_content, SkipClass(root_content, i + Len(token), Whitespace)) = ":"
    /\ i = 1 \/ Ch(root_content, i - 1) \in Whitespace \cup {";"}

\* The report says of this token exactly what the block declares: the
\* warning when it is missing, no warning when it is there, and never a
\* critical issue.
TokenVerdict(rep, root_content, token) ==
  /\ (MissingTokenWarning(token) \in Range(rep.warnings))
       <=> ~Declares(root_content, token)
  /\ \A i \in 1..Len(rep.issues) : ~Contains(rep.issues[i], token)

\* C21: for each required token, validation warns that it is missing
\* exactly when the first root block does not declare that exact token, and
\* never reports it as a critical issue.
C21_MissingTokenWarned ==
  validator = "validated" /\ calls = 1 /\ FirstRootContent(v_css) # <<>> =>
    \A token \in RequiredTokens :
      TokenVerdict(report, FirstRootContent(v_css)[1], token)

(***************************************************************************)
(* References that never close                                             *)
(***************************************************************************)

\* The name a reference opened at position i asks for, whatever follows
\* it: "" when no 'var(' with a --ctc- name stands there.
NameFrom(s, j) ==
  IF At(s, j, "--ctc-") THEN SubSeq(s, j, SkipClass(s, j + 6, NameChars) - 1)
  ELSE ""
OpenedName(s, i) ==
  IF At(s, i, "var(") THEN NameFrom(s, SkipClass(s, i + 4, Whitespace)) ELSE ""

\* t ends with the text s[i..].
KeepsTail(t, s, i) ==
  /\ Len(t) >= Len(s) - i + 1
  /\ SubSeq(t, Len(t) - (Len(s) - i), Len(t)) = SubSeq(s, i, Len(s))

\* The reference opened at i names a key of the table and no parenthesis
\* closes its 'var('.
NeverClosed(s, i) ==
  OpenedName(s, i) \in DOMAIN NORMALIZATION_MAP /\ MatchingClose(s, i + 3) = 0

\* C22: a reference to a tabled name whose 'var(' is never closed is left
\* as it stands, byte for byte to the end of the text, and its name is among
\* the references reported after the repair.
C22_UnclosedReferenceUntouched ==
  pc = "done" =>
    \A i \in 1..Len(resolved) :
      NeverClosed(resolved, i) =>
        /\ KeepsTail(processed, resolved, i)
        /\ OpenedName(resolved, i) \in invalid_vars_after

(***************************************************************************)
(* The engine end to end: empty and malformed documents                    *)
(***************************************************************************)

\* Fragments of documents whose stylesheet is cut short: a style tag, its
\* end, a root block that opens, one that closes, a reference that never
\* closes and a stray parenthesis.
EngineChunks ==
  {"<style>", "</style>", ":root{", "}", "var(--ctc-spacing-1", ")"}

MaxEngineChunks == 3

EngineInputs == Concats(EngineChunks, MaxEngineChunks)

InitEngine == html \in EngineInputs /\ css = "" /\ pc = "html" /\ Idle

\* The document is unpacked and repaired; a validator is built on the
\* stylesheet as it stands and asked.
NextEngine ==
  \/ Extract
  \/ PostProcess
  \/ NewValidator
  \/ Validate

SpecEngine == InitEngine /\ [][NextEngine]_vars

\* A list of messages.
IsMessageList(l) ==
  /\ DOMAIN l = 1..Len(l)
  /\ \A i \in 1..Len(l) : l[i] \in STRING

\* A Report as validate() promises it.
WellFormedReport(rep) ==
  /\ rep.passed \in BOOLEAN
  /\ rep.passed <=> rep.issues = <<>>
  /\ IsMessageList(rep.issues)
  /\ IsMessageList(rep.warnings)
  /\ rep.score \in 0..100

\* C23: every operation returns a result, on the empty document and on
\* malformed text alike: the empty document is extracted to the empty
\* string, the empty string is repaired to the empty string, the repair
\* returns a text, and validate returns a well-formed Report with a score in
\* 0..100 in which the problem of the empty text, the missing root block, is
\* an issue.
C23_EveryOperationReturns ==
  /\ pc # "html" /\ html = "" => css = ""
  /\ pc # "html" => css \in STRING
  /\ pc = "done" => processed \in STRING
  /\ pc = "done" /\ css = "" => processed = ""
  /\ validator = "validated" => WellFormedReport(report)
  /\ validator = "validated" /\ v_css = "" /\ calls = 1 =>
       report.issues = <<"CRITICAL: No :root declaration found">>
         /\ ~report.passed

\* The empty document has gone through all three operations.
C23_Witness ==
  /\ html = ""
  /\ pc = "done"
  /\ css = ""
  /\ processed = ""
  /\ validator = "validated"
  /\ v_css = ""
  /\ report.issues # <<>>
  /\ report.score \in 0..100

\* Where root_content declares exactly this token.
DeclarationsOf(root_content, token) ==
  {i \in 1..Len(root_content) :
     /\ At(root_content, i, token \o ":")
     /\ i = 1 \/ Ch(root_content, i - 1) \in Whitespace \cup {";"}}

\* The value of the declaration whose value starts at v: the text up to the
\* ';' that ends it, or to the end of the block, without the space around.
ValueUpTo(root_content, v, semicolon) ==
  Strip(SubOrEmpty(root_content, v,
          IF semicolon = 0 THEN Len(root_content) ELSE semicolon - 1))
ValueFrom(root_content, v) ==
  ValueUpTo(root_content, v, FindChar(root_content, v, ";"))

\* The font stacks the block declares for this token.
DeclaredStacks(root_content, token) ==
  {ValueFrom(root_content, i + Len(token) + 1) :
     i \in DeclarationsOf(root_content, token)}

\* The generic system fallback the validator names.
GenericStacks == {"Arial, sans-serif"}

GenericTypographyWarning == "Typography uses generic Arial - may not match brand"

\* The heading or the body font stack of the block is a generic stack.
DeclaresGenericFont(root_content) ==
  \E token \in {"--ctc-font-heading", "--ctc-font-body"} :
    DeclaredStacks(root_content, token) \cap GenericStacks # {}

\* C24: validation warns of generic typography exactly when the heading or
\* the body font stack declared in the first root block equals a generic
\* system fallback; a stack that names a brand family first does not bring
\* the warning, and the warning stands at most once in a Report.
C24_GenericTypographyWarned ==
  validator = "validated" /\ calls = 1 /\ FirstRootContent(v_css) # <<>> =>
    /\ (GenericTypographyWarning \in Range(report.warnings))
         <=> DeclaresGenericFont(FirstRootContent(v_css)[1])
    /\ Cardinality({i \in 1..Len(report.warnings) :
                      report.warnings[i] = GenericTypographyWarning}) <= 1

(***************************************************************************)
(* Hardcoded colours                                                       *)
(***************************************************************************)

\* s written n times.
RECURSIVE Repeat(_, _)
Repeat(s, n) == IF n = 0 THEN "" ELSE s \o Repeat(s, n - 1)

\* How many declarations with a literal colour a stylesheet holds at most.
MaxHardcoded == 11

\* Declarations that are no literal hex colour of the three properties: a
\* named colour, a token reference, a '#' with too few digits, another
\* property.
ColourNoise ==
  {"", "d{color:red;background:var(--ctc-primary)}", "e{color:#ab;width:#fff}"}

\* How many color, background and border-color declarations of a literal
\* hex colour a stylesheet holds: at most MaxHardcoded in all.
ColourCounts ==
  {c \in (0..MaxHardcoded) \X (0..MaxHardcoded) \X (0..1) :
     c[1] + c[2] + c[3] <= MaxHardcoded}

ColourText(c) ==
  Repeat("a{color:#fff}", c[1]) \o Repeat("b{background: #00637B}", c[2])
    \o Repeat("c{border-color:#1a2B3c}", c[3])

ColourInputs == {ColourText(c) \o t : c \in ColourCounts, t \in ColourNoise}

InitColours == css \in ColourInputs /\ Start

SpecColours == InitColours /\ [][NextReport]_vars

PropertyNames == {"color", "background", "border-color"}

\* A property name of PropertyNames stands at position i as a whole name,
\* and a literal hex colour follows its colon.
HexValueAfter(text, h) ==
  Ch(text, h) = "#" /\ SkipClass(text, h + 1, HexDigits) - (h + 1) >= 3
HexDeclarationAt(text, i, name) ==
  /\ At(text, i, name \o ":")
  /\ Ch(text, i - 1) \notin NameChars
  /\ HexValueAfter(text, SkipClass(text, i + Len(name) + 1, Whitespace))

\* The number of literal hex colours in color, background and border-color
\* declarations.
HexDeclarations(text) ==
  Cardinality({i \in 1..Len(text) :
                 \E name \in PropertyNames : HexDeclarationAt(text, i, name)})

IsHardcodedWarning(t) == At(t, 1, "Found ") /\ Contains(t, " hardcoded colors")

HardcodedWarnings(rep) ==
  {i \in 1..Len(rep.warnings) : IsHardcodedWarning(rep.warnings[i])}

\* With more than ten literal colours the report holds the warning once,
\* with their number; with ten or fewer it holds none.
HardcodedVerdict(rep, n) ==
  IF n > 10
  THEN /\ Cardinality(HardcodedWarnings(rep)) = 1
       /\ \A i \in HardcodedWarnings(rep) :
            rep.warnings[i] = "Found " \o ToString(n)
                                \o " hardcoded colors - should use CSS variables"
  ELSE HardcodedWarnings(rep) = {}

C25_AtThreshold ==
  /\ validator = "validated"
  /\ calls = 1
  /\ HexDeclarations(v_css) = 10
  /\ HardcodedWarnings(report) = {}

(***************************************************************************)
(* Canonical references and the canonical block under repair               *)
(***************************************************************************)

\* A root block whose declaration refers to a tabled name; canonical
\* references with and without a fallback; references to a name the table
\* maps to a literal, whole and opened before a fallback; one that stands
\* where an unknown name ends; a numeric name the table does not hold.
MixedChunks ==
  {":root{--ctc-line:var(--ctc-neutral-700);}", "var(--ctc-primary)",
   "var(--ctc-primary, #333)", "var(--ctc-spacing-0, ", ")",
   "var(--ctc-gap-var(--ctc-spacing-0))", "var(--ctc-spacing-0)",
   "var(--ctc-spacing-7)"}

MaxMixedChunks == 3

MixedInputs == Concats(MixedChunks, MaxMixedChunks)

InitMixed == css \in MixedInputs /\ Start

SpecMixed == InitMixed /\ [][Next]_vars

\* A reference to a canonical name stands at position i of s, on its own or
\* inside another reference.
CanonicalRefAt(s, i) == VarMatchAt(s, i).name \in VALID_VARIABLES

RefText(s, i) == SubSeq(s, i, VarMatchAt(s, i).end)

\* No message of the report is about this name.
NothingSaidOf(rep, name) ==
  /\ \A k \in 1..Len(rep.warnings) :
       rep.warnings[k] # "Unknown variable: " \o name
  /\ \A k \in 1..Len(rep.issues) :
       ~(IsInvalidVariablesIssue(rep.issues[k]) /\ Contains(rep.issues[k], name))

C27_RootBlockKeptAsWritten ==
  pc = "done" /\ RootBlocks(css) # <<>> =>
    /\ RootBlocks(processed) # <<>>
    /\ RootBlocks(processed)[1] = RootBlocks(css)[1]

\* What a new validator's first validate() returns for a text.
FirstReportOn(text) == ReportOf(FoundIssues(text), FoundWarnings(text))

\* C29: repair never makes the report worse: a new validator on the
\* repaired text gives a score at least as high as one on the input, and
\* passes whenever the input passed.
C29_RepairNeverWorse ==
  pc = "done" /\ validator = "validated" /\ calls = 1 =>
    /\ report.score >= FirstReportOn(css).score
    /\ FirstReportOn(css).passed => report.passed

(***************************************************************************)
(* The critical issues of one Report                                       *)
(***************************************************************************)

IsNoRootIssue(t) == t = "CRITICAL: No :root declaration found"

Holds(rep, IsKind(_)) == \E i \in 1..Len(rep.issues) : IsKind(rep.issues[i])

\* C28: in the Report of a first validate() the conflicting-primary issue
\* comes only with the duplicate-root issue, the missing-root issue comes
\* with neither of them, and the Report holds at most three critical issues.
C28_IssuesThatGoTogether ==
  validator = "validated" /\ calls = 1 =>
    /\ Holds(report, IsConflictIssue) => Holds(report, IsRootCountIssue)
    /\ Holds(report, IsNoRootIssue) =>
         ~Holds(report, IsConflictIssue) /\ ~Holds(report, IsRootCountIssue)
    /\ Len(report.issues) <= 3

\* A first Report holds three critical issues: the duplicate roots, their
\* conflict and an invalid variable.
C28_Witness ==
  /\ validator = "validated"
  /\ calls = 1
  /\ Len(report.issues) = 3
  /\ Holds(report, IsConflictIssue)
  /\ Holds(report, IsRootCountIssue)
  /\ Holds(report, IsInvalidVariablesIssue)

(***************************************************************************)
(* The static tables                                                       *)
(***************************************************************************)

\* One reference, to a key of the table or to a canonical name.
TableInputs ==
  {"var(" \o name \o ")" : name \in DOMAIN NORMALIZATION_MAP \cup VALID_VARIABLES}

InitTables == css \in TableInputs /\ Start

SpecTables == InitTables /\ [][NextRepair]_vars

\* The name the text refers to.
ReferredName(text) == SubSeq(text, 5, Len(text) - 1)

RejectedByPattern(name) ==
  \E k \in 1..Len(POSTPROCESSOR_INVALID_PATTERNS) :
    PatternMatches(POSTPROCESSOR_INVALID_PATTERNS[k], name)

\* What the tables say of a key and of a canonical name.
ConsistentFor(name) ==
  /\ name \in DOMAIN NORMALIZATION_MAP =>
       /\ name \notin VALID_VARIABLES
       /\ NORMALIZATION_MAP[name] \in VALID_VARIABLES \cup {"0"}
       /\ NORMALIZATION_MAP[name] \notin DOMAIN NORMALIZATION_MAP
       /\ RejectedByPattern(name)
  /\ name \in VALID_VARIABLES => ~RejectedByPattern(name)

\* C30: the static tables are consistent: no key of NORMALIZATION_MAP is a
\* canonical name, every value is a canonical name or the literal '0', no
\* value is a key, every key matches an INVALID_PATTERNS entry and no
\* canonical name matches any; so a reference to a key is rewritten once
\* and a second pass leaves the result alone.
C30_TablesConsistent ==
  /\ ConsistentFor(ReferredName(css))
  /\ pc = "twice" => reprocessed = processed

\* A reference to a key has been rewritten, and passed through again.
C30_Witness ==
  /\ pc = "twice"
  /\ ReferredName(css) \in DOMAIN NORMALIZATION_MAP
  /\ processed # css
  /\ reprocessed = processed

====
